---- MODULE Spec2Model ----
(***************************************************************************)
(* Model of src/filter.rs: should_include_file(path, include_patterns,     *)
(* exclude_patterns, include_priority).                                    *)
(*                                                                         *)
(* Strings are sequences of one-character strings.  The glob dialect is    *)
(* the one of glob::Pattern (new / matches with the default MatchOptions), *)
(* which filter.rs calls at lines 42, 43 and 61.  The alphabet has no '!'  *)
(* and no '-', so a bracket expression is a plain set of characters.       *)
(***************************************************************************)
EXTENDS Integers, Sequences, FiniteSets, TLC

(* ---------------------------- bounds ---------------------------------- *)

\* longest include / exclude list drawn as an input
MaxLen == 2
\* number of threads calling the function at the same time
NThreads == 2

Threads == 1..NThreads

(* ---------------------------- strings --------------------------------- *)

\* str::starts_with
StartsWith(s, pre) ==
    /\ Len(pre) <= Len(s)
    /\ SubSeq(s, 1, Len(pre)) = pre

\* str::strip_suffix('*'): the pattern minus ONE trailing '*', or no value
HasStarSuffix(p) == Len(p) >= 1 /\ p[Len(p)] = "*"

strip_suffix(p) == SubSeq(p, 1, Len(p) - 1)

\* index of the last '/' of p, 0 when there is none
LastSlash(p) ==
    LET S == {k \in 1..Len(p) : p[k] = "/"}
    IN IF S = {} THEN 0 ELSE CHOOSE k \in S : \A m \in S : m <= k

\* path.file_name().and_then(|n| n.to_str()).unwrap_or(""): the final
\* component of the path as given; a path ending in ".." has none
FileName(p) ==
    LET name == SubSeq(p, LastSlash(p) + 1, Len(p))
    IN IF name = <<".", ".">> THEN <<>> ELSE name

(* ------------------------- glob::Pattern ------------------------------ *)

Tok(k, c) == [k |-> k, c |-> c]

CompileErr == [ok |-> FALSE, tokens |-> <<>>]

\* first index after the run of '*' that starts at i
RECURSIVE StarRunEnd(_, _)
StarRunEnd(chars, i) ==
    IF i <= Len(chars) /\ chars[i] = "*" THEN StarRunEnd(chars, i + 1) ELSE i

\* position of the first ']' at or after index from, 0 when there is none
CloseBracket(chars, from) ==
    LET S == {k \in from..Len(chars) : chars[k] = "]"}
    IN IF S = {} THEN 0 ELSE CHOOSE k \in S : \A m \in S : k <= m

\* consecutive recursive wildcards collapse into one token
PushRecursive(tokens) ==
    IF Len(tokens) > 1 /\ tokens[Len(tokens)].k = "AnyRecursiveSequence"
    THEN tokens
    ELSE Append(tokens, Tok("AnyRecursiveSequence", <<>>))

\* Pattern::new, from index i on, tokens compiled so far
RECURSIVE Compile(_, _, _)
Compile(chars, i, tokens) ==
    IF i > Len(chars) THEN [ok |-> TRUE, tokens |-> tokens]
    ELSE IF chars[i] = "?" THEN
        Compile(chars, i + 1, Append(tokens, Tok("AnyChar", <<>>)))
    ELSE IF chars[i] = "*" THEN
        LET n == StarRunEnd(chars, i)
            count == n - i
        IN IF count > 2 THEN CompileErr
           ELSE IF count = 2 THEN
               IF i = 1 \/ chars[i - 1] = "/" THEN
                   IF n <= Len(chars) /\ chars[n] = "/"
                   THEN Compile(chars, n + 1, PushRecursive(tokens))
                   ELSE IF n = Len(chars) + 1
                   THEN Compile(chars, n, PushRecursive(tokens))
                   ELSE CompileErr
               ELSE CompileErr
           ELSE Compile(chars, n, Append(tokens, Tok("AnySequence", <<>>)))
    ELSE IF chars[i] = "[" THEN
        IF i + 3 <= Len(chars) /\ chars[i + 1] = "!" THEN
            LET k == CloseBracket(chars, i + 3)
            IN IF k = 0 THEN CompileErr
               ELSE Compile(chars, k + 1,
                        Append(tokens, Tok("AnyExcept", SubSeq(chars, i + 2, k - 1))))
        ELSE IF i + 2 <= Len(chars) /\ chars[i + 1] # "!" THEN
            LET k == CloseBracket(chars, i + 2)
            IN IF k = 0 THEN CompileErr
               ELSE Compile(chars, k + 1,
                        Append(tokens, Tok("AnyWithin", SubSeq(chars, i + 1, k - 1))))
        ELSE CompileErr
    ELSE Compile(chars, i + 1, Append(tokens, Tok("Char", <<chars[i]>>)))

\* Pattern::new(pattern)
PatternNew(pattern) == Compile(pattern, 1, <<>>)

\* in_char_specifiers, every specifier a single character
InSpecifiers(cs, c) == \E k \in 1..Len(cs) : cs[k] = c

\* one token that consumes exactly one character
TokenAccepts(tok, c) ==
    IF tok.k = "AnyChar" THEN TRUE
    ELSE IF tok.k = "AnyWithin" THEN InSpecifiers(tok.c, c)
    ELSE IF tok.k = "AnyExcept" THEN ~InSpecifiers(tok.c, c)
    ELSE tok.c = <<c>>

\* Pattern::matches_from with MatchOptions::new(): the tokens from ti on
\* match the file string from fi on, to its end
RECURSIVE MatchesFrom(_, _, _, _)
MatchesFrom(tokens, ti, file, fi) ==
    IF ti > Len(tokens) THEN fi > Len(file)
    ELSE IF tokens[ti].k = "AnySequence" THEN
        \E n \in fi..(Len(file) + 1) : MatchesFrom(tokens, ti + 1, file, n)
    ELSE IF tokens[ti].k = "AnyRecursiveSequence" THEN
        \E n \in fi..(Len(file) + 1) :
            /\ n = fi \/ n = Len(file) + 1 \/ file[n - 1] = "/"
            /\ MatchesFrom(tokens, ti + 1, file, n)
    ELSE /\ fi <= Len(file)
         /\ TokenAccepts(tokens[ti], file[fi])
         /\ MatchesFrom(tokens, ti + 1, file, fi + 1)

\* glob.matches(path_str) of a compiled pattern
GlobMatches(glob, str) == MatchesFrom(glob.tokens, 1, str, 1)

(* ------------------------- inputs of a call ---------------------------- *)

\* the pattern strings the lists are drawn from:
\*   "*b"  compiles, matches every string ending in b
\*   "a*"  compiles, matches only strings starting with a; ends in '*'
\*   "ab"  compiles, matches only the string ab; has no '*'
\*   "[a"  does not compile (unclosed bracket); has no '*'
\*   "[*"  does not compile; ends in '*'
Patterns ==
    { <<"*", "b">>, <<"a", "*">>, <<"a", "b">>, <<"[", "a">>, <<"[", "*">> }

\* the paths a call is made with
Paths ==
    { <<"/", "d", "/", "a", "b">>,      \* a regular file
      <<"l", "n">>,                     \* relative symlink to /d/ab
      <<"/", "d", "/", "[", "a">>,      \* a regular file named [a
      <<"/", "x">>,                     \* does not exist
      <<"/", "d", "/", ".", ".">> }     \* the root directory, no file name

\* fs::canonicalize(path) on the filesystem of the model
canonicalize(p) ==
    IF p = <<"/", "x">> THEN [ok |-> FALSE, path |-> <<>>]
    ELSE IF p = <<"l", "n">> THEN [ok |-> TRUE, path |-> <<"/", "d", "/", "a", "b">>]
    ELSE IF p = <<"/", "d", "/", ".", ".">> THEN [ok |-> TRUE, path |-> <<"/">>]
    ELSE [ok |-> TRUE, path |-> p]

\* all lists of patterns of length at most n
RECURSIVE Lists(_)
Lists(n) ==
    IF n = 0 THEN { <<>> }
    ELSE Lists(n - 1) \cup
         { Append(l, p) : l \in {m \in Lists(n - 1) : Len(m) = n - 1}, p \in Patterns }

PatternLists == Lists(MaxLen)

(* --------------------- should_include_file, as a function -------------- *)

\* rule (a): the pattern compiles as a glob and matches the canonical path
RuleGlob(pattern, str) ==
    LET glob == PatternNew(pattern)
    IN glob.ok /\ GlobMatches(glob, str)

\* rule (b): the pattern ends in '*' and the rest is a prefix of the file name
RuleWildcard(pattern, name) ==
    HasStarSuffix(pattern) /\ StartsWith(name, strip_suffix(pattern))

\* rule (c) tried only on a pattern that compiled
RuleExactCompiled(pattern, name) == PatternNew(pattern).ok /\ name = pattern

\* rule (c): the pattern is the file name
RuleExact(pattern, name) == name = pattern

\* a pattern that does not compile ends the closure with no match
IncludeClosureStrict(pattern, str, name) ==
    /\ PatternNew(pattern).ok
    /\ \/ RuleGlob(pattern, str)
       \/ RuleWildcard(pattern, name)
       \/ RuleExact(pattern, name)

\* the prefix compared with the canonical path instead of the file name
IncludeClosureCanonicalPrefix(pattern, str, name) ==
    \/ RuleGlob(pattern, str)
    \/ RuleWildcard(pattern, str)
    \/ RuleExact(pattern, name)

\* the closure of include_patterns.iter().any(..)
IncludeClosure(pattern, str, name) ==
    \/ RuleGlob(pattern, str)
    \/ RuleWildcard(pattern, name)
    \/ RuleExact(pattern, name)

\* a pattern that does not compile skipped instead of unwrapped
ExcludeClosureLenient(pattern, str) ==
    IF PatternNew(pattern).ok /\ GlobMatches(PatternNew(pattern), str) THEN "true"
    ELSE "false"

\* an exclude pattern also compared with the last component of the path
ExcludeClosureBaseName(pattern, str) ==
    IF ~PatternNew(pattern).ok THEN "panic"
    ELSE IF GlobMatches(PatternNew(pattern), str) \/ FileName(str) = pattern THEN "true"
    ELSE "false"

\* the closure of exclude_patterns.iter().any(..): Pattern::new(..).unwrap()
\* panics on a pattern that does not compile
ExcludeClosure(pattern, str) ==
    IF ~PatternNew(pattern).ok THEN "panic"
    ELSE IF GlobMatches(PatternNew(pattern), str) THEN "true"
    ELSE "false"

\* include_patterns.iter().any(..) from element k on
RECURSIVE IncludeAny(_, _, _, _)
IncludeAny(pats, k, str, name) ==
    IF k > Len(pats) THEN FALSE
    ELSE IF IncludeClosure(pats[k], str, name) THEN TRUE
    ELSE IncludeAny(pats, k + 1, str, name)

\* exclude_patterns.iter().any(..) from element k on
RECURSIVE ExcludeAny(_, _, _)
ExcludeAny(pats, k, str) ==
    IF k > Len(pats) THEN "false"
    ELSE LET r == ExcludeClosure(pats[k], str)
         IN IF r = "false" THEN ExcludeAny(pats, k + 1, str) ELSE r

\* exclusion winning over inclusion whatever include_priority is
DecisionExcludeWins(inc, exc, prio, patterns) ==
    IF exc THEN FALSE
    ELSE IF inc THEN TRUE
    ELSE patterns = <<>>

\* include_priority returned for every excluded path
DecisionPriorityOnExclude(inc, exc, prio, patterns) ==
    IF exc THEN prio
    ELSE IF inc THEN TRUE
    ELSE patterns = <<>>

\* the match of the decision
Decision(inc, exc, prio, patterns) ==
    IF inc /\ exc THEN prio
    ELSE IF inc THEN TRUE
    ELSE IF exc THEN FALSE
    ELSE patterns = <<>>

BoolStr(b) == IF b THEN "true" ELSE "false"

\* the outcome of one call run alone: "true", "false" or "panic"
ShouldInclude(p, incs, excs, prio) ==
    LET c == canonicalize(p)
    IN IF ~c.ok THEN "false"
       ELSE LET inc == IncludeAny(incs, 1, c.path, FileName(p))
                exc == ExcludeAny(excs, 1, c.path)
            IN IF exc = "panic" THEN "panic"
               ELSE BoolStr(Decision(inc, exc = "true", prio, incs))

(* --------------------- should_include_file, step by step --------------- *)

VARIABLES
    path,               \* argument path of each thread's call
    include_patterns,   \* argument include_patterns
    exclude_patterns,   \* argument exclude_patterns
    include_priority,   \* argument include_priority
    pc,                 \* where the call is: idle, call, include, exclude,
                        \* decide, done (returned) or panic (aborted)
    path_str,           \* local path_str
    file_name,          \* local file_name
    i,                  \* position of the include iterator
    j,                  \* position of the exclude iterator
    included,           \* local included
    excluded,           \* local excluded
    result,             \* the value returned
    evaluated,          \* number of patterns handed to a closure so far
    log                 \* the diagnostics the call has emitted

vars == <<path, include_patterns, exclude_patterns, include_priority, pc,
          path_str, file_name, i, j, included, excluded, result, evaluated, log>>

args == <<path, include_patterns, exclude_patterns, include_priority>>

\* the locals of a call before its first statement
InitLocals ==
    /\ path_str = [t \in Threads |-> <<>>]
    /\ file_name = [t \in Threads |-> <<>>]
    /\ i = [t \in Threads |-> 1]
    /\ j = [t \in Threads |-> 1]
    /\ included = [t \in Threads |-> FALSE]
    /\ excluded = [t \in Threads |-> FALSE]
    /\ result = [t \in Threads |-> FALSE]
    /\ evaluated = [t \in Threads |-> 0]
    /\ log = [t \in Threads |-> <<>>]

\* one caller: thread 1 calls with any arguments, no other thread calls
Init ==
    /\ \E p \in Paths, incs \in PatternLists, excs \in PatternLists, prio \in BOOLEAN :
        /\ path = [t \in Threads |-> p]
        /\ include_patterns = [t \in Threads |-> incs]
        /\ exclude_patterns = [t \in Threads |-> excs]
        /\ include_priority = [t \in Threads |-> prio]
    /\ pc = [t \in Threads |-> IF t = 1 THEN "call" ELSE "idle"]
    /\ InitLocals

\* the calls the threads of the concurrent specification make
ConcPaths == { <<"/", "d", "/", "a", "b">>, <<"/", "x">> }
ConcIncludes == { <<<<"a", "b">>, <<"a", "*">>>>, <<<<"[", "a">>>> }
ConcExcludes == { <<<<"*", "b">>>>, <<<<"[", "a">>>> }

\* several callers: every thread calls, each with its own arguments
InitConc ==
    /\ path \in [Threads -> ConcPaths]
    /\ include_patterns \in [Threads -> ConcIncludes]
    /\ exclude_patterns \in [Threads -> ConcExcludes]
    /\ include_priority \in [Threads -> BOOLEAN]
    /\ pc = [t \in Threads |-> "call"]
    /\ InitLocals

\* the failure reported, the return forgotten
CanonicalizeNoReturn(t) ==
    /\ pc[t] = "call"
    /\ LET c == canonicalize(path[t])
       IN /\ log' = [log EXCEPT ![t] = IF c.ok THEN @ ELSE Append(@, [level |-> "error"])]
          /\ path_str' = [path_str EXCEPT ![t] = c.path]
          /\ file_name' = [file_name EXCEPT ![t] = FileName(path[t])]
          /\ pc' = [pc EXCEPT ![t] = "include"]
    /\ UNCHANGED <<args, i, j, included, excluded, result, evaluated>>

\* lines 29-37: canonicalize, or report the failure and return false
Canonicalize(t) ==
    /\ pc[t] = "call"
    /\ LET c == canonicalize(path[t])
       IN IF ~c.ok
          THEN /\ log' = [log EXCEPT ![t] = Append(@, [level |-> "error"])]
               /\ result' = [result EXCEPT ![t] = FALSE]
               /\ pc' = [pc EXCEPT ![t] = "done"]
               /\ UNCHANGED <<path_str, file_name>>
          ELSE /\ path_str' = [path_str EXCEPT ![t] = c.path]
               /\ file_name' = [file_name EXCEPT ![t] = FileName(path[t])]
               /\ pc' = [pc EXCEPT ![t] = "include"]
               /\ UNCHANGED <<log, result>>
    /\ UNCHANGED <<args, i, j, included, excluded, evaluated>>

\* included kept in one place shared by all the threads
IncludeStepShared(t) ==
    /\ pc[t] = "include"
    /\ IF i[t] > Len(include_patterns[t])
       THEN /\ included' = [u \in Threads |-> FALSE]
            /\ pc' = [pc EXCEPT ![t] = "exclude"]
            /\ UNCHANGED <<i, evaluated>>
       ELSE /\ evaluated' = [evaluated EXCEPT ![t] = @ + 1]
            /\ IF IncludeClosure(include_patterns[t][i[t]], path_str[t], file_name[t])
               THEN /\ included' = [u \in Threads |-> TRUE]
                    /\ pc' = [pc EXCEPT ![t] = "exclude"]
                    /\ UNCHANGED i
               ELSE /\ i' = [i EXCEPT ![t] = @ + 1]
                    /\ UNCHANGED <<included, pc>>
    /\ UNCHANGED <<args, path_str, file_name, j, excluded, result, log>>

\* lines 40-57: one turn of include_patterns.iter().any(..)
IncludeStep(t) ==
    /\ pc[t] = "include"
    /\ IF i[t] > Len(include_patterns[t])
       THEN /\ included' = [included EXCEPT ![t] = FALSE]
            /\ pc' = [pc EXCEPT ![t] = "exclude"]
            /\ UNCHANGED <<i, evaluated>>
       ELSE /\ evaluated' = [evaluated EXCEPT ![t] = @ + 1]
            /\ IF IncludeClosure(include_patterns[t][i[t]], path_str[t], file_name[t])
               THEN /\ included' = [included EXCEPT ![t] = TRUE]
                    /\ pc' = [pc EXCEPT ![t] = "exclude"]
                    /\ UNCHANGED i
               ELSE /\ i' = [i EXCEPT ![t] = @ + 1]
                    /\ UNCHANGED <<included, pc>>
    /\ UNCHANGED <<args, path_str, file_name, j, excluded, result, log>>

\* lines 59-61: one turn of exclude_patterns.iter().any(..)
ExcludeStep(t) ==
    /\ pc[t] = "exclude"
    /\ IF j[t] > Len(exclude_patterns[t])
       THEN /\ excluded' = [excluded EXCEPT ![t] = FALSE]
            /\ pc' = [pc EXCEPT ![t] = "decide"]
            /\ UNCHANGED <<j, evaluated>>
       ELSE /\ evaluated' = [evaluated EXCEPT ![t] = @ + 1]
            /\ LET r == ExcludeClosure(exclude_patterns[t][j[t]], path_str[t])
               IN IF r = "panic"
                  THEN /\ pc' = [pc EXCEPT ![t] = "panic"]
                       /\ UNCHANGED <<j, excluded>>
                  ELSE IF r = "true"
                  THEN /\ excluded' = [excluded EXCEPT ![t] = TRUE]
                       /\ pc' = [pc EXCEPT ![t] = "decide"]
                       /\ UNCHANGED j
                  ELSE /\ j' = [j EXCEPT ![t] = @ + 1]
                       /\ UNCHANGED <<excluded, pc>>
    /\ UNCHANGED <<args, path_str, file_name, i, included, result, log>>

\* lines 64-80: the decision, its trace, the return
Decide(t) ==
    /\ pc[t] = "decide"
    /\ LET r == Decision(included[t], excluded[t], include_priority[t],
                         include_patterns[t])
       IN /\ result' = [result EXCEPT ![t] = r]
          /\ log' = [log EXCEPT ![t] = Append(@,
                        [level |-> "debug", path_str |-> path_str[t],
                         included |-> included[t], excluded |-> excluded[t],
                         decision |-> r])]
    /\ pc' = [pc EXCEPT ![t] = "done"]
    /\ UNCHANGED <<args, path_str, file_name, i, j, included, excluded, evaluated>>

Next ==
    \E t \in Threads :
        \/ Canonicalize(t)
        \/ IncludeStep(t)
        \/ ExcludeStep(t)
        \/ Decide(t)

Spec == Init /\ [][Next]_vars

SpecConc == InitConc /\ [][Next]_vars

(* ------------------------------ claims -------------------------------- *)

\* the canonicalization outcome of thread t's path
Canon(t) == canonicalize(path[t])

\* the call of thread t has returned or aborted
Terminal(t) == pc[t] \in {"done", "panic"}

\* the include evaluation of thread t's call is over
PastInclude(t) == pc[t] \in {"exclude", "decide", "done", "panic"}

\* what the call of thread t came to
Outcome(t) == IF pc[t] = "panic" THEN "panic" ELSE BoolStr(result[t])

\* every pattern of the list is valid glob syntax
AllCompile(pats) == \A k \in 1..Len(pats) : PatternNew(pats[k]).ok

\* some pattern of the list matches by rule (a), (b) or (c)
SomeIncludeMatches(pats, t) ==
    \E k \in 1..Len(pats) :
        \/ RuleGlob(pats[k], Canon(t).path)
        \/ RuleWildcard(pats[k], FileName(path[t]))
        \/ RuleExact(pats[k], FileName(path[t]))

\* some pattern of the list glob-matches the canonical path
SomeExcludeMatches(pats, t) ==
    \E k \in 1..Len(pats) : RuleGlob(pats[k], Canon(t).path)

\* the reorderings of a list
Perms(seq) ==
    { [k \in 1..Len(seq) |-> seq[f[k]]] : f \in Permutations(1..Len(seq)) }

\* C1: when the path canonicalizes and every exclude pattern compiles, the
\* call returns, and returns the value of the decision table over
\* (included, excluded): include_priority / true / false / include list empty
C1_DecisionTable ==
    \A t \in Threads :
        (Terminal(t) /\ Canon(t).ok /\ AllCompile(exclude_patterns[t])) =>
            LET inc == SomeIncludeMatches(include_patterns[t], t)
                exc == SomeExcludeMatches(exclude_patterns[t], t)
            IN /\ pc[t] = "done"
               /\ (inc /\ exc => result[t] = include_priority[t])
               /\ (inc /\ ~exc => result[t] = TRUE)
               /\ (~inc /\ exc => result[t] = FALSE)
               /\ (~inc /\ ~exc => result[t] = (include_patterns[t] = <<>>))

\* a call matched by both lists has returned include_priority = true
C1_Witness ==
    \E t \in Threads :
        /\ pc[t] = "done" /\ Canon(t).ok
        /\ SomeIncludeMatches(include_patterns[t], t)
        /\ SomeExcludeMatches(exclude_patterns[t], t)
        /\ include_priority[t] /\ result[t]

\* C2: a call whose path does not canonicalize evaluates no pattern, never
\* aborts, and returns false, whatever the lists and include_priority are
C2_FailClosed ==
    \A t \in Threads :
        (pc[t] # "idle" /\ ~Canon(t).ok) =>
            /\ pc[t] \in {"call", "done"}
            /\ evaluated[t] = 0
            /\ (pc[t] = "done" => result[t] = FALSE)

\* such a call has returned, with a malformed exclude pattern and
\* include_priority set
C2_Witness ==
    \E t \in Threads :
        /\ pc[t] = "done" /\ ~Canon(t).ok
        /\ ~AllCompile(exclude_patterns[t])
        /\ include_patterns[t] = <<>>
        /\ include_priority[t]

C4_LenientInclude ==
    \A t \in Threads :
        /\ PastInclude(t) =>
               included[t] = SomeIncludeMatches(include_patterns[t], t)
        /\ pc[t] = "panic" => ~AllCompile(exclude_patterns[t])

\* a malformed first include pattern did not match, the pattern after it did
C4_Witness ==
    \E t \in Threads :
        /\ pc[t] = "done" /\ Len(include_patterns[t]) = 2
        /\ ~PatternNew(include_patterns[t][1]).ok
        /\ ~SomeIncludeMatches(<<include_patterns[t][1]>>, t)
        /\ included[t] /\ result[t]

\* C5: the outcome of a call on an existing path is the outcome of the call
\* on every reordering of include_patterns and of exclude_patterns
C5_OrderIndependent ==
    \A t \in Threads :
        (Terminal(t) /\ Canon(t).ok) =>
            \A incs \in Perms(include_patterns[t]), excs \in Perms(exclude_patterns[t]) :
                ShouldInclude(path[t], incs, excs, include_priority[t]) = Outcome(t)

\* C6: an include pattern without '*' that equals the file name makes
\* included true whether or not it compiles or glob-matches; the call then
\* returns true when no exclude pattern matches
C6_ExactMatch ==
    \A t \in Threads :
        \A k \in 1..Len(include_patterns[t]) :
            LET p == include_patterns[t][k]
            IN (/\ PastInclude(t)
                /\ \A m \in 1..Len(p) : p[m] # "*"
                /\ p = FileName(path[t])) =>
                   /\ included[t]
                   /\ (pc[t] = "done" /\ ~SomeExcludeMatches(exclude_patterns[t], t))
                          => result[t]

\* a pattern that does not compile, second in the list, equals the file
\* name and the call has returned true
C6_Witness ==
    \E t \in Threads :
        /\ pc[t] = "done" /\ Len(include_patterns[t]) = 2
        /\ include_patterns[t][2] = FileName(path[t])
        /\ ~PatternNew(include_patterns[t][2]).ok
        /\ ~SomeIncludeMatches(<<include_patterns[t][1]>>, t)
        /\ included[t] /\ result[t]

\* C7: an include pattern pre* makes included true when the file name of
\* the path as given starts with pre, whether or not the pattern compiles or
\* glob-matches; alone in the list and matching neither by glob nor
\* exactly, it makes included true only then
C7_PrefixMatch ==
    \A t \in Threads :
        \A k \in 1..Len(include_patterns[t]) :
            LET p == include_patterns[t][k]
                pre == SubSeq(p, 1, Len(p) - 1)
            IN (PastInclude(t) /\ Len(p) >= 1 /\ p[Len(p)] = "*") =>
                   /\ StartsWith(FileName(path[t]), pre) => included[t]
                   /\ (/\ Len(include_patterns[t]) = 1
                       /\ ~RuleGlob(p, Canon(t).path)
                       /\ p # FileName(path[t]))
                          => (included[t] <=> StartsWith(FileName(path[t]), pre))

\* a pattern pre* that does not compile matched the file name by its prefix
C7_Witness ==
    \E t \in Threads :
        /\ pc[t] = "done" /\ Len(include_patterns[t]) = 1
        /\ ~PatternNew(include_patterns[t][1]).ok
        /\ include_patterns[t][1][Len(include_patterns[t][1])] = "*"
        /\ included[t] /\ result[t]

\* C8: under every interleaving, a call ends as it ends when run alone on
\* the same arguments
C8_NoInterference ==
    \A t \in Threads :
        Terminal(t) =>
            Outcome(t) = ShouldInclude(path[t], include_patterns[t],
                                       exclude_patterns[t], include_priority[t])

\* two calls on the same path have ended differently, a third kind of call
\* being possible: one returned true, the other false
C8_Witness ==
    \E t, u \in Threads :
        /\ t # u /\ path[t] = path[u] /\ Canon(t).ok
        /\ pc[t] = "done" /\ pc[u] = "done"
        /\ result[t] /\ ~result[u]
        /\ included[t] /\ ~included[u]

\* C9: excluded is true iff some exclude pattern glob-matches the canonical
\* path; the file name plays no part
C9_ExcludeGlobOnly ==
    \A t \in Threads :
        pc[t] \in {"decide", "done"} =>
            excluded[t] = SomeExcludeMatches(exclude_patterns[t], t)

\* one list, used for both, made included true and left excluded false
C9_Witness ==
    \E t \in Threads :
        /\ pc[t] = "done"
        /\ include_patterns[t] = exclude_patterns[t]
        /\ Len(exclude_patterns[t]) = 2
        /\ RuleExact(exclude_patterns[t][1], FileName(path[t]))
        /\ RuleWildcard(exclude_patterns[t][2], FileName(path[t]))
        /\ included[t] /\ ~excluded[t] /\ result[t]

\* C10: one more well-formed exclude pattern never turns false into true;
\* one more include pattern on a non-empty list never turns true into
\* false; on an empty list it can, and then the new pattern does not match
\* and no exclude pattern matches
C10_Monotone ==
    \A t \in Threads :
        Terminal(t) =>
            \A q \in Patterns :
                LET moreExc == ShouldInclude(path[t], include_patterns[t],
                                   Append(exclude_patterns[t], q), include_priority[t])
                    moreInc == ShouldInclude(path[t], Append(include_patterns[t], q),
                                   exclude_patterns[t], include_priority[t])
                IN /\ (PatternNew(q).ok /\ Outcome(t) = "false") => moreExc # "true"
                   /\ (include_patterns[t] # <<>> /\ Outcome(t) = "true")
                          => moreInc # "false"
                   /\ (include_patterns[t] = <<>> /\ Outcome(t) = "true"
                          /\ moreInc = "false")
                          => /\ ~SomeIncludeMatches(<<q>>, t)
                             /\ ~SomeExcludeMatches(exclude_patterns[t], t)

\* a call with no include pattern returned true, and returns false with one
\* include pattern that does not match
C10_Witness ==
    \E t \in Threads :
        /\ pc[t] = "done" /\ Canon(t).ok
        /\ include_patterns[t] = <<>> /\ exclude_patterns[t] # <<>>
        /\ result[t]
        /\ \E q \in Patterns :
               ShouldInclude(path[t], <<q>>, exclude_patterns[t],
                             include_priority[t]) = "false"

====
